---- MODULE Spec2Model ----
(***************************************************************************)
(* Model of the in-memory DNS cache of internal/platform/proxy/dnscache.go *)
(* (type Resolver): the cache map under its RWMutex, the operations        *)
(* LookupIP, Fetch, Refresh and Stop as interleaved steps of concurrent    *)
(* callers, and the background goroutine driven by the ticker and the stop *)
(* channel.  The resolution capability (lookupIPFn) is the environment: a  *)
(* call is in flight for a while and then returns an error or any list.    *)
(***************************************************************************)
EXTENDS Integers, Sequences, FiniteSets, TLC

\* ---- bounds of the model ----
NumCallers == 2     \* concurrent caller goroutines
NumHosts == 2       \* distinct hostnames
NumIPs == 1         \* distinct non-empty address lists the resolver can return
MaxOps == 2         \* caller operations started in one run
MaxTicks == 1       \* ticks the ticker delivers in one run

bg == 0
Callers == 1..NumCallers
Procs == {bg} \cup Callers
Hosts == 1..NumHosts
\* the address lists a resolution can return: the empty list and <<i>>
IPLists == {<<>>} \cup {<<i>> : i \in 1..NumIPs}

\* optional values: Absent, or Some(v)
Absent == <<>>
Some(v) == <<v>>
Val(o) == o[1]
NoProc == -1

VARIABLES
  cache,         \* r.cache: Hosts -> Absent | Some(list)
  writer,        \* r.lock: the goroutine holding the write lock, or NoProc
  readers,       \* r.lock: the goroutines holding the read lock
  closer,        \* r.closer # nil
  closeCount,    \* number of close(ch) executed (2 = close of a closed channel)
  tickerStopped, \* ticker.Stop() has run
  tickC,         \* ticks buffered in ticker.C (capacity 1)
  ticks,         \* ticks delivered so far
  hooks,         \* calls of onRefreshedFn so far
  pc,            \* position of each goroutine
  op,            \* operation each goroutine is in
  addr,          \* the hostname argument of the LookupIP/Fetch in progress
  todo,          \* Refresh: hostnames of the snapshot still to be looked up
  res,           \* retcome of the last resolution call: Absent | Some([err, ips])
  ret,           \* what the operation that returned last returned: Absent | Some([err, ips])
  nops,          \* caller operations started
  \* ---- history variables (observers, never read by the operations) ----
  calls,         \* resolution calls made by the operation in progress
  lastOk,        \* per host: the list of the latest successful resolution
  raced,         \* per host: two lookups of the host overlapped in time
  failSnap,      \* per host: entry when a resolution last failed, no successful write since
  lastRet,       \* per host: list a LookupIP wrote and returned, no other write since
  snap,          \* Refresh: the snapshot taken
  tried,         \* Refresh: per host of the sweep, its retcome Absent | Some([err, ips])
  prior,         \* Refresh: the cache at the time of the snapshot
  foreign,       \* Refresh: hosts written by another goroutine since the snapshot
  stopReturned,  \* the first Stop() has returned
  budget,        \* ticks consumed or buffered but not yet swept when Stop returned
  sweepsAfterStop, \* sweeps the background task began after Stop returned
  consumed       \* ticks the background task received from ticker.C

progVars == <<cache, writer, readers, closer, closeCount, tickerStopped, tickC,
              ticks, hooks, pc, op, addr, todo, res, ret, nops>>
histVars == <<calls, lastOk, raced, failSnap, lastRet, snap, tried,
              prior, foreign, stopReturned, budget, sweepsAfterStop>>
vars == <<progVars, histVars, consumed>>

Outcome(e, l) == Some([err |-> e, ips |-> l])
\* sentinels of the history variables (tuples, so they compare with entries)
NoFail == << <<>>, <<>> >>
NoVal == <<0, 0>>
Dirty == <<0, 0, 0>>

Keys(c) == {h \in Hosts : c[h] # Absent}
LockFree == writer = NoProc /\ readers = {}

Init ==
  /\ cache = [h \in Hosts |-> Absent]
  /\ writer = NoProc
  /\ readers = {}
  /\ closer = TRUE
  /\ closeCount = 0
  /\ tickerStopped = FALSE
  /\ tickC = 0
  /\ ticks = 0
  /\ hooks = 0
  /\ pc = [p \in Procs |-> IF p = bg THEN "select" ELSE "idle"]
  /\ op = [p \in Procs |-> IF p = bg THEN "bg" ELSE "none"]
  /\ addr = [p \in Procs |-> 0]
  /\ todo = [p \in Procs |-> {}]
  /\ res = [p \in Procs |-> Absent]
  /\ ret = Absent
  /\ nops = 0
  /\ calls = [p \in Procs |-> 0]
  /\ lastOk = [h \in Hosts |-> Absent]
  /\ raced = [h \in Hosts |-> FALSE]
  /\ failSnap = [h \in Hosts |-> NoFail]
  /\ lastRet = [h \in Hosts |-> NoVal]
  /\ snap = [p \in Procs |-> {}]
  /\ tried = [p \in Procs |-> [h \in Hosts |-> Absent]]
  /\ prior = [p \in Procs |-> [h \in Hosts |-> Absent]]
  /\ foreign = [p \in Procs |-> {}]
  /\ stopReturned = FALSE
  /\ budget = 0
  /\ sweepsAfterStop = 0
  /\ consumed = 0

\* ---- variable groups ----
lockVars == <<writer, readers>>
stopVars == <<closer, closeCount, tickerStopped, tickC>>
bgVars == <<ticks, hooks, consumed>>
locals == <<addr, todo, res, calls, snap, tried, prior, foreign>>
hostHist == <<lastOk, failSnap, lastRet>>
stopHist == <<stopReturned, budget, sweepsAfterStop>>

NoTried == [k \in Hosts |-> Absent]
InSweep(p) == op[p] \in {"Refresh", "bg"}
\* goroutine q is inside LookupIP(h): resolving, or about to write, or writing
InLookup(q, h) == pc[q] \in {"lk_wait", "lk_lock", "lk_unlock"} /\ addr[q] = h
\* goroutine q is in the loop of a sweep, after its snapshot
Sweeping(q) == InSweep(q) /\ pc[q] \in {"rf_loop", "lk_wait", "lk_lock", "lk_unlock"}
\* where a goroutine continues when its operation returns
Home(p) == IF p = bg THEN "hook" ELSE "idle"

\* a caller goroutine starts an operation; idle goroutines are
\* interchangeable, so the lowest-numbered one makes the call
CanCall(p) ==
  /\ pc[p] = "idle"
  /\ nops < MaxOps
  /\ \A q \in Callers : q < p => pc[q] # "idle"

Begin(p, o, at) ==
  /\ nops' = nops + 1
  /\ op' = [op EXCEPT ![p] = o]
  /\ pc' = [pc EXCEPT ![p] = at]

\* the operation of goroutine p returns o; its locals are gone
Return(p, o) ==
  /\ pc' = [pc EXCEPT ![p] = Home(p)]
  /\ op' = [op EXCEPT ![p] = IF p = bg THEN "bg" ELSE "none"]
  /\ ret' = o
  /\ addr' = [addr EXCEPT ![p] = 0]
  /\ todo' = [todo EXCEPT ![p] = {}]
  /\ res' = [res EXCEPT ![p] = Absent]
  /\ calls' = [calls EXCEPT ![p] = 0]
  /\ snap' = [snap EXCEPT ![p] = {}]
  /\ tried' = [tried EXCEPT ![p] = NoTried]
  /\ prior' = [prior EXCEPT ![p] = NoTried]
  /\ foreign' = [foreign EXCEPT ![p] = {}]

\* ---- LookupIP (dnscache.go:105-115) ----

\* line 106: r.lookupIPFn(ctx, addr) is called; the call is in flight
EnterLookup(p, h) ==
  /\ pc' = [pc EXCEPT ![p] = "lk_wait"]
  /\ addr' = [addr EXCEPT ![p] = h]
  /\ calls' = [calls EXCEPT ![p] = @ + 1]
  /\ raced' = [raced EXCEPT ![h] = @ \/ \E q \in Procs \ {p} : InLookup(q, h)]

\* lines 107-109: the cache is written only when the resolution succeeded
WritesCacheAlways(e) == TRUE
WritesCache(e) == ~e

\* lines 140-146: a failed lookup of a sweep is logged and the loop goes on
SweepAbortsOnError(e) == ~e
SweepContinues(e) == TRUE

\* line 112: r.cache[addr] = ips
NewCacheOnly(c, h, l) == [k \in Hosts |-> IF k = h THEN Some(l) ELSE Absent]
NewCacheWrongKey(c, h, l) == [c EXCEPT ![(h % NumHosts) + 1] = Some(l)]
NewCacheIfAbsent(c, h, l) == IF c[h] = Absent THEN [c EXCEPT ![h] = Some(l)] ELSE c
NewCacheSkipEmpty(c, h, l) == IF l = <<>> THEN c ELSE [c EXCEPT ![h] = Some(l)]
NewCache(c, h, l) == [c EXCEPT ![h] = Some(l)]

CallLookupIP(p, h) ==
  /\ CanCall(p)
  /\ Begin(p, "LookupIP", "lk_wait")
  /\ EnterLookup(p, h)
  /\ UNCHANGED <<cache, lockVars, stopVars, bgVars, ret, todo, res, snap, tried,
                 prior, foreign, hostHist, stopHist>>

\* lines 106-109: the resolution returns an error (and nil) or a list
LookupRet(p) ==
  /\ pc[p] = "lk_wait"
  /\ \E e \in BOOLEAN, l \in IPLists :
       /\ e => l = <<>>
       /\ IF WritesCache(e)
            THEN /\ pc' = [pc EXCEPT ![p] = "lk_lock"]
                 /\ res' = [res EXCEPT ![p] = Outcome(e, l)]
                 /\ UNCHANGED <<op, ret, addr, todo, calls, snap, tried, prior, foreign>>
            ELSE IF InSweep(p)
              THEN IF SweepContinues(e)
                     THEN /\ pc' = [pc EXCEPT ![p] = "rf_loop"]
                          /\ res' = [res EXCEPT ![p] = Outcome(e, l)]
                          /\ tried' = [tried EXCEPT ![p][addr[p]] = Outcome(e, l)]
                          /\ UNCHANGED <<op, ret, addr, todo, calls, snap, prior, foreign>>
                     ELSE Return(p, Absent)
              ELSE Return(p, Outcome(e, l))
       /\ IF e
            THEN /\ failSnap' = [failSnap EXCEPT ![addr[p]] = cache[addr[p]]]
                 /\ UNCHANGED lastOk
            ELSE /\ lastOk' = [lastOk EXCEPT ![addr[p]] = Some(l)]
                 /\ UNCHANGED failSnap
  /\ UNCHANGED <<cache, lockVars, stopVars, bgVars, nops, raced, lastRet, stopHist>>

\* lines 111-112: r.lock.Lock(); r.cache[addr] = ips
LookupLock(p) ==
  /\ pc[p] = "lk_lock"
  /\ LockFree
  /\ writer' = p
  /\ cache' = NewCache(cache, addr[p], Val(res[p]).ips)
  /\ pc' = [pc EXCEPT ![p] = "lk_unlock"]
  /\ failSnap' = [failSnap EXCEPT ![addr[p]] = IF Val(res[p]).err THEN @ ELSE NoFail]
  /\ lastRet' = [lastRet EXCEPT ![addr[p]] = IF @ = NoVal THEN NoVal ELSE Dirty]
  /\ foreign' = [q \in Procs |-> IF q # p /\ Sweeping(q)
                                   THEN foreign[q] \cup {addr[p]} ELSE foreign[q]]
  /\ UNCHANGED <<readers, stopVars, bgVars, op, addr, todo, res, ret, nops, calls,
                 lastOk, raced, snap, tried, prior, stopHist>>

\* lines 113 and 153: r.lock.Unlock() gives the write lock up
UnlockForgotten(w) == w
Unlock(w) == NoProc

\* lines 113-114: r.lock.Unlock(); return ips, nil
LookupUnlock(p) ==
  /\ pc[p] = "lk_unlock"
  /\ writer = p
  /\ writer' = Unlock(writer)
  /\ lastRet' = [lastRet EXCEPT ![addr[p]] = Val(res[p]).ips]
  /\ IF InSweep(p)
       THEN /\ pc' = [pc EXCEPT ![p] = "rf_loop"]
            /\ tried' = [tried EXCEPT ![p][addr[p]] = res[p]]
            /\ UNCHANGED <<op, ret, addr, todo, res, calls, snap, prior, foreign>>
       ELSE Return(p, res[p])
  /\ UNCHANGED <<cache, readers, stopVars, bgVars, nops,
                 lastOk, raced, failSnap, stopHist>>

\* ---- Fetch (dnscache.go:119-127) ----

\* lines 122 and 136: r.lock.RUnlock(), before any lookup
RUnlockDeferred(rs, p) == rs
RUnlock(rs, p) == rs \ {p}

\* lines 121-123: ips, ok := r.cache[addr]
FetchHitNonEmpty(c, h) == c[h] # Absent /\ Val(c[h]) # <<>>
FetchNeverHits(c, h) == FALSE
FetchHit(c, h) == c[h] # Absent

\* line 126: on a miss, return r.LookupIP(ctx, addr)
MissReportsNotFound == FALSE
MissLooksUp == TRUE

CallFetch(p, h) ==
  /\ CanCall(p)
  /\ Begin(p, "Fetch", "f_rlock")
  /\ addr' = [addr EXCEPT ![p] = h]
  /\ UNCHANGED <<cache, lockVars, stopVars, bgVars, ret, todo, res, calls, snap,
                 tried, prior, foreign, raced, hostHist, stopHist>>

\* line 120: r.lock.RLock()
FetchRLock(p) ==
  /\ pc[p] = "f_rlock"
  /\ writer = NoProc
  /\ readers' = readers \cup {p}
  /\ pc' = [pc EXCEPT ![p] = "f_read"]
  /\ UNCHANGED <<cache, writer, stopVars, bgVars, op, addr, todo, res, ret, nops,
                 histVars>>

\* lines 121-126: read the entry, RUnlock, return it or go on to LookupIP
FetchRead(p) ==
  /\ pc[p] = "f_read"
  /\ readers' = RUnlock(readers, p)
  /\ IF FetchHit(cache, addr[p])
       THEN /\ Return(p, Outcome(FALSE, Val(cache[addr[p]])))
            /\ UNCHANGED raced
       ELSE IF MissLooksUp
         THEN /\ EnterLookup(p, addr[p])
              /\ UNCHANGED <<op, ret, todo, res, snap, tried, prior, foreign>>
         ELSE /\ Return(p, Outcome(TRUE, <<>>))
              /\ UNCHANGED raced
  /\ UNCHANGED <<cache, writer, stopVars, bgVars, nops, hostHist, stopHist>>

\* ---- Refresh (dnscache.go:130-148) ----

CallRefresh(p) ==
  /\ CanCall(p)
  /\ Begin(p, "Refresh", "rf_rlock")
  /\ UNCHANGED <<cache, lockVars, stopVars, bgVars, ret, locals, raced, hostHist,
                 stopHist>>

\* line 131: r.lock.RLock(); the sweep begins
RefreshRLock(p) ==
  /\ pc[p] = "rf_rlock"
  /\ writer = NoProc
  /\ readers' = readers \cup {p}
  /\ pc' = [pc EXCEPT ![p] = "rf_snap"]
  /\ sweepsAfterStop' = IF p = bg /\ stopReturned THEN sweepsAfterStop + 1
                        ELSE sweepsAfterStop
  /\ UNCHANGED <<cache, writer, stopVars, bgVars, op, ret, nops, locals,
                 raced, hostHist, stopReturned, budget>>

\* lines 132-135: addrs holds the keys the map has under the read lock
SnapshotAllHosts(c) == Hosts
SnapshotKeys(c) == Keys(c)

\* lines 132-136: copy the keys of the map, r.lock.RUnlock()
RefreshSnap(p) ==
  /\ pc[p] = "rf_snap"
  /\ readers' = RUnlock(readers, p)
  /\ todo' = [todo EXCEPT ![p] = SnapshotKeys(cache)]
  /\ snap' = [snap EXCEPT ![p] = SnapshotKeys(cache)]
  /\ prior' = [prior EXCEPT ![p] = cache]
  /\ pc' = [pc EXCEPT ![p] = "rf_loop"]
  /\ UNCHANGED <<cache, writer, stopVars, bgVars, op, addr, res, ret, nops,
                 calls, raced, hostHist, tried, foreign, stopHist>>

\* lines 138-140: the next hostname of the snapshot (a Go map is ranged over
\* in any order), or the end of the sweep
RefreshNext(p) ==
  /\ pc[p] = "rf_loop"
  /\ IF todo[p] = {}
       THEN /\ Return(p, Absent)
            /\ UNCHANGED raced
       ELSE \E h \in todo[p] :
            /\ todo' = [todo EXCEPT ![p] = @ \ {h}]
            /\ EnterLookup(p, h)
            /\ UNCHANGED <<op, ret, res, snap, tried, prior, foreign>>
  /\ UNCHANGED <<cache, lockVars, stopVars, bgVars, nops, hostHist, stopHist>>

\* ---- Stop (dnscache.go:151-158) and the closer (dnscache.go:58-61) ----

\* line 154: if r.closer != nil
CloserRunsAlways(c) == TRUE
CloserRuns(c) == c

\* line 59: ticker.Stop() stops the ticker
TickerKeepsRunning(s) == s
TickerStop(s) == TRUE

CallStop(p) ==
  /\ CanCall(p)
  /\ Begin(p, "Stop", "st_lock")
  /\ UNCHANGED <<cache, lockVars, stopVars, bgVars, ret, locals, raced, hostHist,
                 stopHist>>

\* line 152: r.lock.Lock()
StopLock(p) ==
  /\ pc[p] = "st_lock"
  /\ LockFree
  /\ writer' = p
  /\ pc' = [pc EXCEPT ![p] = "st_body"]
  /\ UNCHANGED <<cache, readers, stopVars, bgVars, op, addr, todo, res, ret, nops,
                 histVars>>

\* Stop as it would be if it also emptied the map
StopBodyClearsCache(p) ==
  /\ pc[p] = "st_body"
  /\ IF CloserRuns(closer)
       THEN /\ tickerStopped' = TickerStop(tickerStopped)
            /\ tickC' \in {tickC, 0}
            /\ closeCount' = IF closeCount < 2 THEN closeCount + 1 ELSE 2
            /\ closer' = FALSE
       ELSE UNCHANGED stopVars
  /\ cache' = [h \in Hosts |-> Absent]
  /\ pc' = [pc EXCEPT ![p] = "st_unlock"]
  /\ UNCHANGED <<lockVars, bgVars, op, addr, todo, res, ret, nops, histVars>>

\* lines 154-157 and 58-61: run the closer (ticker.Stop(); close(ch)) and
\* forget it.  A tick already in ticker.C stays there or is discarded,
\* depending on the Go release the program is built with.
StopBody(p) ==
  /\ pc[p] = "st_body"
  /\ IF CloserRuns(closer)
       THEN /\ tickerStopped' = TickerStop(tickerStopped)
            /\ tickC' \in {tickC, 0}
            /\ closeCount' = IF closeCount < 2 THEN closeCount + 1 ELSE 2
            /\ closer' = FALSE
       ELSE UNCHANGED stopVars
  /\ pc' = [pc EXCEPT ![p] = "st_unlock"]
  /\ UNCHANGED <<cache, lockVars, bgVars, op, addr, todo, res, ret, nops, histVars>>

\* line 153: the deferred r.lock.Unlock(); Stop returns
StopUnlock(p) ==
  /\ pc[p] = "st_unlock"
  /\ writer = p
  /\ writer' = Unlock(writer)
  /\ Return(p, Absent)
  /\ stopReturned' = TRUE
  /\ budget' = IF stopReturned THEN budget
               ELSE tickC + (IF pc[bg] = "rf_rlock" THEN 1 ELSE 0)
  /\ UNCHANGED <<cache, readers, stopVars, bgVars, nops, raced, hostHist,
                 sweepsAfterStop>>

\* ---- the ticker and the background goroutine (dnscache.go:56, 88-98) ----

\* line 56: the ticker delivers a tick into ticker.C
Tick ==
  /\ ~tickerStopped
  /\ tickC = 0
  /\ ticks < MaxTicks
  /\ tickC' = 1
  /\ ticks' = ticks + 1
  /\ UNCHANGED <<cache, lockVars, closer, closeCount, tickerStopped, hooks, consumed, pc, op,
                 addr, todo, res, ret, nops, histVars>>

\* the tick case as it would be with the hook called before the sweep
BgSelectTickHookFirst ==
  /\ pc[bg] = "select"
  /\ tickC = 1
  /\ tickC' = 0
  /\ consumed' = consumed + 1
  /\ hooks' = hooks + 1
  /\ pc' = [pc EXCEPT ![bg] = "rf_rlock"]
  /\ UNCHANGED <<cache, lockVars, closer, closeCount, tickerStopped, ticks, op,
                 addr, todo, res, ret, nops, histVars>>

\* lines 90-92: select receives from ticker.C and calls r.Refresh()
BgSelectTick ==
  /\ pc[bg] = "select"
  /\ tickC = 1
  /\ tickC' = 0
  /\ consumed' = consumed + 1
  /\ pc' = [pc EXCEPT ![bg] = "rf_rlock"]
  /\ UNCHANGED <<cache, lockVars, closer, closeCount, tickerStopped, ticks, hooks, op,
                 addr, todo, res, ret, nops, histVars>>

\* the stop case as it would be if it left only the select, not the loop
BgSelectStopStaysInLoop ==
  /\ pc[bg] = "select"
  /\ closeCount >= 1
  /\ pc' = [pc EXCEPT ![bg] = "select"]
  /\ UNCHANGED <<cache, lockVars, stopVars, bgVars, op, addr, todo, res, ret, nops,
                 histVars>>

\* lines 94-95: select receives from the closed channel ch; the goroutine returns
BgSelectStop ==
  /\ pc[bg] = "select"
  /\ closeCount >= 1
  /\ pc' = [pc EXCEPT ![bg] = "exit"]
  /\ UNCHANGED <<cache, lockVars, stopVars, bgVars, op, addr, todo, res, ret, nops,
                 histVars>>

\* line 93: onRefreshedFn(), then back to the select
BgHook ==
  /\ pc[bg] = "hook"
  /\ hooks' = hooks + 1
  /\ pc' = [pc EXCEPT ![bg] = "select"]
  /\ UNCHANGED <<cache, lockVars, stopVars, ticks, consumed, op, addr, todo, res, ret, nops,
                 histVars>>

Next ==
  \/ \E p \in Callers, h \in Hosts : CallLookupIP(p, h)
  \/ \E p \in Callers, h \in Hosts : CallFetch(p, h)
  \/ \E p \in Callers : CallRefresh(p)
  \/ \E p \in Callers : CallStop(p)
  \/ \E p \in Procs : LookupRet(p)
  \/ \E p \in Procs : LookupLock(p)
  \/ \E p \in Procs : LookupUnlock(p)
  \/ \E p \in Callers : FetchRLock(p)
  \/ \E p \in Callers : FetchRead(p)
  \/ \E p \in Procs : RefreshRLock(p)
  \/ \E p \in Procs : RefreshSnap(p)
  \/ \E p \in Procs : RefreshNext(p)
  \/ \E p \in Callers : StopLock(p)
  \/ \E p \in Callers : StopBody(p)
  \/ \E p \in Callers : StopUnlock(p)
  \/ Tick
  \/ BgSelectTick
  \/ BgSelectStop
  \/ BgHook

Spec == Init /\ [][Next]_vars

\* Scheduling: a goroutine that can take the next step of the operation it is
\* in takes it (the Go scheduler runs every runnable goroutine, sync.RWMutex
\* hands the lock over, and every resolution call returns); when a caller
\* calls and when the ticker fires is left open.
ProcStep(p) ==
  \/ LookupRet(p) \/ LookupLock(p) \/ LookupUnlock(p)
  \/ RefreshRLock(p) \/ RefreshSnap(p) \/ RefreshNext(p)
  \/ p \in Callers /\ (FetchRLock(p) \/ FetchRead(p))
  \/ p \in Callers /\ (StopLock(p) \/ StopBody(p) \/ StopUnlock(p))
BgStep == BgSelectTick \/ BgSelectStop \/ BgHook
Fairness == WF_vars(BgStep) /\ \A p \in Procs : WF_vars(ProcStep(p))
LiveSpec == Spec /\ Fairness

TypeOK ==
  /\ cache \in [Hosts -> {Absent} \cup {Some(l) : l \in IPLists}]
  /\ writer \in Procs \cup {NoProc}
  /\ readers \subseteq Procs
  /\ closeCount \in 0..2
  /\ tickC \in 0..1

\* ---- steps of one goroutine, as seen in a transition ----
Returns(p) == pc[p] # Home(p) /\ pc'[p] = Home(p) /\ pc[p] # "select"
FetchReads(p) == pc[p] = "f_read" /\ pc'[p] # "f_read"
ResolutionReturns(p) == pc[p] = "lk_wait" /\ pc'[p] # "lk_wait"
Writes(p) == pc[p] = "lk_lock" /\ pc'[p] = "lk_unlock"
BeginsSweep(p) == pc[p] = "rf_rlock" /\ pc'[p] = "rf_snap"
EndsSweep(p) == InSweep(p) /\ Returns(p)

\* ---- C1: stale on failure ----
C1_EntrySurvivesFailure ==
  \A h \in Hosts : failSnap[h] # NoFail => cache[h] = failSnap[h]
C1_FetchAfterFailure ==
  \A p \in Callers :
    (FetchReads(p) /\ failSnap[addr[p]] \notin {NoFail, Absent})
      => /\ pc'[p] = "idle"
         /\ ret' = Outcome(FALSE, Val(failSnap[addr[p]]))
\* C1: when a resolution of a cached hostname H fails (in LookupIP, through
\* Fetch or in a sweep), the entry of H is what it was, and stays so until a
\* successful resolution of H is written; a Fetch(H) that reads meanwhile
\* returns that list without error.
C1_StaleOnFailure == [](C1_EntrySurvivesFailure) /\ [][C1_FetchAfterFailure]_vars
C1_Witness ==
  \E p \in Callers : pc[p] = "f_read" /\ failSnap[addr[p]] \notin {NoFail, Absent}

\* ---- C2: Fetch after a successful LookupIP ----
C2_Step ==
  \A p \in Callers :
    (FetchReads(p) /\ lastRet[addr[p]] # NoVal)
      => /\ pc'[p] = "idle"
         /\ calls[p] = 0
         /\ cache[addr[p]] # Absent
         /\ ret' = Outcome(FALSE, Val(cache[addr[p]]))
         /\ lastRet[addr[p]] # Dirty => ret' = Outcome(FALSE, lastRet[addr[p]])
\* C2: a Fetch(H) that reads the cache after a successful LookupIP(H) has
\* returned is a hit: it returns the cached list without error and makes no
\* resolution call; if nothing else wrote H since that LookupIP, it returns the
\* list the LookupIP returned.
C2_FetchAfterLookup == [][C2_Step]_vars
C2_Witness ==
  \E p \in Callers : pc[p] = "f_read" /\ lastRet[addr[p]] \notin {NoVal, Dirty}

\* ---- C3: a miss is promoted to one lookup ----
C3_Step ==
  \A p \in Callers :
    op[p] = "Fetch" =>
      /\ (FetchReads(p) /\ cache[addr[p]] = Absent)
           => pc'[p] = "lk_wait" /\ calls'[p] = 1 /\ addr'[p] = addr[p]
      /\ (ResolutionReturns(p) /\ pc'[p] = "lk_lock")
           => calls[p] = 1 /\ ~Val(res'[p]).err
      /\ (Returns(p) /\ pc[p] # "f_read")
           => /\ calls[p] = 1
              /\ \/ pc[p] = "lk_wait" /\ ret' = Outcome(TRUE, <<>>)
                 \/ /\ pc[p] = "lk_unlock"
                    /\ ret' = res[p]
                    /\ ~Val(res[p]).err
                    /\ cache[addr[p]] = Some(Val(res[p]).ips)
      /\ (Returns(p) /\ pc[p] = "f_read") => ret' # Absent /\ ~Val(ret').err
\* C3: a Fetch(H) that finds H absent makes exactly one resolution call for H
\* and returns that call's outcome: its error, or its list, which is stored
\* under H when Fetch returns; a Fetch returns an error only from a failed
\* resolution.
C3_MissPromotesToLookup ==
  [](\A p \in Callers : op[p] = "Fetch" => calls[p] <= 1) /\ [][C3_Step]_vars
C3_Witness ==
  \E p \in Callers : op[p] = "Fetch" /\ pc[p] = "lk_unlock" /\ calls[p] = 1

\* ---- C4: partial-sweep resilience ----
C4_Step ==
  \A p \in Procs :
    EndsSweep(p) =>
      /\ pc[p] = "rf_loop"
      /\ todo[p] = {}
      /\ ret' = Absent
      /\ calls[p] = Cardinality(snap[p])
      /\ \A h \in snap[p] :
           /\ tried[p][h] # Absent
           /\ h \notin foreign[p] =>
                IF Val(tried[p][h]).err
                  THEN cache[h] = prior[p][h]
                  ELSE cache[h] = Some(Val(tried[p][h]).ips)
\* C4: a Refresh returns only after it has attempted every hostname of its
\* snapshot, whatever failed; at that point each hostname that resolved holds
\* the new list and each hostname that failed holds the entry it had at the
\* snapshot (for the hostnames no other goroutine wrote meanwhile), and
\* Refresh returns nothing.
C4_PartialSweep == [][C4_Step]_vars
C4_Witness ==
  \E p \in Procs :
    /\ InSweep(p) /\ pc[p] = "rf_loop" /\ todo[p] = {} /\ foreign[p] = {}
    /\ \E h1, h2 \in snap[p] :
         /\ tried[p][h1] = Outcome(TRUE, <<>>)
         /\ tried[p][h2] # Absent /\ ~Val(tried[p][h2]).err

\* ---- C5: idempotent stop ----
C5_CloserOnce ==
  /\ closeCount <= 1
  /\ closer <=> closeCount = 0
  /\ (stopReturned \/ \E p \in Callers : pc[p] = "st_unlock")
       => closeCount = 1 /\ tickerStopped
C5_LaterStopStep ==
  \A p \in Callers :
    (pc[p] = "st_body" /\ pc'[p] = "st_unlock" /\ ~closer)
      => UNCHANGED <<stopVars, cache>>
\* C5: over any number of Stop() calls the closer runs exactly once, in the
\* first Stop that holds the lock, so the stop channel is closed once; a later
\* Stop changes nothing.
C5_IdempotentStop == [](C5_CloserOnce) /\ [][C5_LaterStopStep]_vars
C5_Witness ==
  stopReturned /\ closeCount = 1 /\ \E p \in Callers : pc[p] = "st_unlock"

\* ---- C6: no sweep begins after Stop ----
\* C6: once the first Stop() has returned, the background task never begins
\* another Refresh sweep.
C6_NoSweepAfterStop == [][stopReturned => ~BeginsSweep(bg)]_vars

\* ---- C7: writes of the background task after Stop ----
\* C7 as stated: after Stop() has returned the background task writes no
\* cache entry.
C7_NoBgWriteAfterStop == [][stopReturned => ~Writes(bg)]_vars
C7_ExitIsFinal == pc[bg] = "exit" => pc'[bg] = "exit" /\ ~Writes(bg)
\* C7 as amended: after Stop() has returned the background task writes only
\* inside a sweep that was in progress when Stop() returned or a sweep begun
\* for a tick delivered before Stop() (received by the select already, or
\* still in ticker.C); it begins no more sweeps than there were such ticks,
\* and once it has received the stop signal it never runs or writes again.
C7_BgWritesBounded == [](sweepsAfterStop <= budget) /\ [][C7_ExitIsFinal]_vars
C7_Witness == stopReturned /\ sweepsAfterStop = 1 /\ pc[bg] = "lk_unlock"

\* ---- C8: the entry is the last successfully resolved list ----
WriteOwed(h) == \E p \in Procs : pc[p] = "lk_lock" /\ addr[p] = h
\* C8 as stated: under any interleaving the entry present for H is the result
\* of the latest successful resolution of H, never of an earlier one (read at
\* the states where no lookup of H has its write still to do).
C8_LastResolvedWins ==
  \A h \in Hosts : (cache[h] # Absent /\ ~WriteOwed(h)) => cache[h] = lastOk[h]
\* C8 as amended: the mapping holds at most one entry per hostname, an entry
\* exists for H only after a resolution of H succeeded, and it is the result
\* of the latest successful resolution of H whenever no lookup of H has its
\* write still to do and no two lookups of H have overlapped; when lookups of
\* H overlap, the write that takes the lock last wins.
C8_LastWriterWins ==
  /\ cache \in [Hosts -> {Absent} \cup {Some(l) : l \in IPLists}]
  /\ \A h \in Hosts :
       cache[h] # Absent =>
         /\ lastOk[h] # Absent
         /\ (~raced[h] /\ ~WriteOwed(h)) => cache[h] = lastOk[h]
C8_Witness ==
  \E p \in Procs :
    pc[p] = "lk_unlock" /\ lastRet[addr[p]] = Dirty /\ ~raced[addr[p]]

\* ---- C9: the key set only grows ----
C9_Step ==
  \A h \in Hosts :
    /\ cache[h] # Absent => cache'[h] # Absent
    /\ (cache[h] = Absent /\ cache'[h] # Absent)
         => \E p \in Procs : Writes(p) /\ addr[p] = h /\ ~Val(res[p]).err
\* C9: the cache is empty at construction; in every step a hostname that is
\* a key stays a key, and a hostname becomes a key only in the write of a
\* successful resolution of that hostname.
C9_KeysOnlyGrow == (\A h \in Hosts : cache[h] = Absent) /\ [][C9_Step]_vars
C9_Witness ==
  Keys(cache) = Hosts /\ \E h \in Hosts : failSnap[h] \notin {NoFail, Absent}

\* ---- C10: no negative caching ----
C10_Step ==
  /\ \A h \in Hosts :
       cache'[h] # cache[h]
         => \E p \in Procs : /\ Writes(p) /\ addr[p] = h
                             /\ ~Val(res[p]).err
                             /\ cache'[h] = Some(Val(res[p]).ips)
  /\ \A p \in Procs :
       (ResolutionReturns(p) /\ pc'[p] # "lk_lock") => cache' = cache
  /\ \A p \in Callers :
       (op[p] = "Fetch" /\ Returns(p) /\ Val(ret').err /\ lastOk[addr[p]] = Absent)
         => cache'[addr[p]] = Absent
\* C10: a failed resolution creates no entry: the entry of H changes only in
\* the write of a list that a resolution of H returned, H is a key only if a
\* resolution of H has succeeded, and after a Fetch(H) that fails while no
\* resolution of H has ever succeeded H is not in the cache.
C10_NoNegativeCaching ==
  [](\A h \in Hosts : cache[h] # Absent => lastOk[h] # Absent) /\ [][C10_Step]_vars
C10_Witness ==
  /\ ret = Outcome(TRUE, <<>>)
  /\ \E h \in Hosts : lastOk[h] = Absent /\ failSnap[h] = Absent /\ cache[h] = Absent

\* ---- C11: the lock is not held across a resolution ----
\* C11: in every reachable state a goroutine that is inside a call of the
\* resolution capability holds neither the write lock nor a read lock.
C11_NoLockAcrossResolution ==
  \A p \in Procs : pc[p] = "lk_wait" => writer # p /\ p \notin readers
C11_Witness ==
  \E p \in Procs : pc[p] = "lk_wait" /\ InSweep(p) /\ \E q \in Procs \ {p} : q \in readers

\* ---- C12: the write happens before the successful return ----
C12_Step ==
  /\ \A p \in Procs :
       /\ ResolutionReturns(p)
            => IF pc'[p] = "lk_lock" THEN ~Val(res'[p]).err
               ELSE InSweep(p) \/ ret' = Outcome(TRUE, <<>>)
       /\ (pc[p] = "lk_unlock" /\ pc'[p] # "lk_unlock")
            => /\ cache[addr[p]] = Some(Val(res[p]).ips)
               /\ cache' = cache
               /\ ~InSweep(p) => ret' = Outcome(FALSE, Val(res[p]).ips)
  /\ \A p \in Callers :
       (FetchReads(p) /\ lastRet[addr[p]] \notin {NoVal, Dirty})
         => ret' = Outcome(FALSE, lastRet[addr[p]])
\* C12: a LookupIP(H) returns a list L only after cache[H] = L is in the map,
\* whatever the entry was before and also when L is empty; a Fetch(H) that
\* reads after that return and before any other write of H returns L.
C12_WriteBeforeReturn == [][C12_Step]_vars
C12_Witness ==
  \E p \in Procs :
    /\ pc[p] = "lk_unlock" /\ Val(res[p]).ips = <<>>
    /\ lastRet[addr[p]] = Dirty /\ cache[addr[p]] = Some(<<>>)

\* ---- C13: Stop leaves the cache and the callers alone ----
InStop(p) == pc[p] \in {"st_lock", "st_body", "st_unlock"}
C13_StopStep ==
  \A p \in Callers :
    (InStop(p) /\ pc'[p] # pc[p])
      => /\ cache' = cache
         /\ \A q \in Procs \ {p} :
              pc'[q] = pc[q] /\ addr'[q] = addr[q] /\ res'[q] = res[q]
C13_CallerStep ==
  \A p \in Callers :
    closeCount >= 1 =>
      /\ (Writes(p) => cache' = [cache EXCEPT ![addr[p]] = Some(Val(res[p]).ips)])
      /\ (pc[p] = "lk_unlock" /\ Returns(p)) => ret' = res[p]
C13_CallersGoOn ==
  \A p \in Callers :
    /\ pc[p] = "lk_wait" => ENABLED LookupRet(p)
    /\ (pc[p] = "lk_lock" /\ LockFree) => ENABLED LookupLock(p)
    /\ pc[p] = "lk_unlock" => ENABLED LookupUnlock(p)
    /\ (pc[p] = "f_rlock" /\ writer = NoProc) => ENABLED FetchRLock(p)
    /\ pc[p] = "f_read" => ENABLED FetchRead(p)
\* C13: no step of Stop changes the map or the position of another goroutine;
\* a LookupIP or Fetch in flight when Stop runs, or called after it, can
\* always take its next step, and with the stop channel closed it still
\* writes its list and returns its outcome.
C13_StopFrame == [](C13_CallersGoOn) /\ [][C13_StopStep /\ C13_CallerStep]_vars
C13_Witness ==
  stopReturned /\ \E p \in Callers : pc[p] = "lk_unlock" /\ op[p] \in {"LookupIP", "Fetch"}

\* ---- C14: the background task terminates after Stop ----
\* C14: under fair scheduling, with every resolution call returning, once
\* Stop() has been called the background goroutine eventually leaves its loop,
\* and having left it never runs again.
C14_BgTerminates ==
  /\ (\E p \in Callers : InStop(p)) ~> (pc[bg] = "exit")
  /\ [][pc[bg] = "exit" => pc'[bg] = "exit"]_vars
C14_Witness == pc[bg] = "exit" /\ hooks = 1 /\ Keys(cache) # {}

\* ---- C15: of two lookups in sequence the later one wins ----
C15_Step ==
  \A p \in Procs :
    (pc[p] = "lk_unlock" /\ pc'[p] # "lk_unlock"
       /\ lastRet[addr[p]] = Dirty /\ ~raced[addr[p]])
      => /\ cache'[addr[p]] = Some(Val(res[p]).ips)
         /\ cache'[addr[p]] = lastOk[addr[p]]
         /\ lastRet'[addr[p]] = Val(res[p]).ips
\* C15: when a successful LookupIP(H) returns after an earlier successful
\* LookupIP(H) had returned, and no two lookups of H have overlapped, the entry
\* of H is the list of the later call, whatever the two lists are.
C15_LaterLookupWins == [][C15_Step]_vars
C15_Witness ==
  /\ pc[bg] = "lk_unlock" /\ ~raced[addr[bg]] /\ lastRet[addr[bg]] = Dirty
  /\ Val(res[bg]).ips # <<>>

\* ---- C16: a sweep resolves its snapshot, each hostname once ----
Tried(p) == {h \in Hosts : tried[p][h] # Absent}
C16_SweepInv ==
  \A p \in Procs :
    Sweeping(p) =>
      /\ snap[p] = Keys(prior[p])
      /\ todo[p] \subseteq snap[p]
      /\ Tried(p) \subseteq snap[p] \ todo[p]
      /\ calls[p] = Cardinality(snap[p] \ todo[p])
      /\ pc[p] \in {"lk_wait", "lk_lock", "lk_unlock"}
           => addr[p] \in snap[p] \ todo[p] /\ addr[p] \notin Tried(p)
C16_Step ==
  \A p \in Procs :
    EndsSweep(p) => Tried(p) = snap[p] /\ calls[p] = Cardinality(snap[p])
\* C16: a sweep resolves exactly the hostnames that were keys of the map when
\* it took its snapshot under the read lock, each of them once; a hostname that
\* became a key after the snapshot is not resolved by that sweep, and the
\* entries are updated one by one.
C16_SweepIsItsSnapshot == [](C16_SweepInv) /\ [][C16_Step]_vars
C16_Witness ==
  /\ pc[bg] = "rf_loop" /\ todo[bg] = {} /\ snap[bg] # {}
  /\ Keys(cache) \ snap[bg] # {}

\* ---- C17: one sweep, then one hook, per tick received ----
C17_Inv ==
  /\ consumed <= ticks
  /\ consumed = hooks + (IF pc[bg] \in {"select", "exit"} THEN 0 ELSE 1)
C17_Step ==
  /\ consumed' # consumed
       => /\ pc[bg] = "select" /\ pc'[bg] = "rf_rlock"
          /\ tickC = 1 /\ tickC' = 0 /\ consumed' = consumed + 1
  /\ (pc[bg] # "hook" /\ pc'[bg] = "hook")
       => /\ pc[bg] = "rf_loop" /\ todo[bg] = {}
          /\ calls[bg] = Cardinality(snap[bg])
          /\ hooks' = hooks
  /\ hooks' # hooks
       => pc[bg] = "hook" /\ pc'[bg] = "select" /\ hooks' = hooks + 1
  /\ \A p \in Callers : pc'[p] # pc[p] => hooks' = hooks
\* C17: for every tick it receives the background task runs one whole sweep
\* (every hostname of the snapshot attempted) and then calls the hook once; the
\* hook is never called before its sweep has finished, and a Refresh called by
\* a caller does not call it.
C17_TickThenSweepThenHook == [](C17_Inv) /\ [][C17_Step]_vars
C17_Witness ==
  /\ hooks = 1 /\ consumed = 1 /\ Keys(cache) # {}
  /\ \E p \in Callers : op[p] = "Refresh" /\ pc[p] = "rf_loop"

\* ---- C18: nobody waits for ever for the lock or for the stop channel ----
WaitsForLock(p) == pc[p] \in {"lk_lock", "f_rlock", "rf_rlock", "st_lock"}
HoldsLock(p) == writer = p \/ p \in readers
Acquire(p) ==
  \/ LookupLock(p) \/ RefreshRLock(p)
  \/ p \in Callers /\ (FetchRLock(p) \/ StopLock(p))
Release(p) ==
  \/ LookupUnlock(p) \/ RefreshSnap(p)
  \/ p \in Callers /\ (FetchRead(p) \/ StopUnlock(p))
C18_Inv ==
  /\ writer # NoProc => readers = {}
  /\ \A p \in Procs :
       /\ writer = p => pc[p] \in {"lk_unlock", "st_body", "st_unlock"}
       /\ p \in readers => pc[p] \in {"f_read", "rf_snap"}
       /\ HoldsLock(p) => ~WaitsForLock(p)
       /\ HoldsLock(p) =>
            ENABLED (Release(p) \/ (p \in Callers /\ StopBody(p)))
       /\ (WaitsForLock(p) /\ LockFree) => ENABLED Acquire(p)
       /\ (WaitsForLock(p) /\ writer = NoProc
             /\ pc[p] \in {"f_rlock", "rf_rlock"}) => ENABLED Acquire(p)
  /\ (pc[bg] = "select" /\ closeCount >= 1) => ENABLED BgSelectStop
\* C18: in every interleaving, whoever holds the cache lock can take its next
\* step without waiting for anybody (Stop's closer included) and gives the lock
\* up; whoever waits for the lock gets it; and once the stop channel is closed
\* the background task leaves its select for good.
C18_DeadlockFree ==
  /\ [](C18_Inv)
  /\ \A p \in Procs : HoldsLock(p) ~> ~HoldsLock(p)
  /\ \A p \in Procs : WaitsForLock(p) ~> HoldsLock(p)
  /\ (pc[bg] = "select" /\ closeCount >= 1) ~> (pc[bg] = "exit")
C18_Witness ==
  /\ \E p \in Callers : pc[p] = "st_body" /\ writer = p /\ closer
  /\ \E q \in Callers : pc[q] = "lk_lock"
  /\ pc[bg] = "rf_rlock"

\* ---- C19: concurrent misses are not coalesced ----
C19_Step ==
  /\ \A p \in Callers :
       /\ (FetchReads(p) /\ cache[addr[p]] = Absent)
            => /\ pc'[p] = "lk_wait" /\ calls'[p] = 1
               /\ \A q \in Procs \ {p} :
                    InLookup(q, addr[p])
                      => /\ raced'[addr[p]]
                         /\ pc'[q] = pc[q] /\ calls'[q] = calls[q]
                         /\ res'[q] = res[q]
       /\ (op[p] = "Fetch" /\ ResolutionReturns(p) /\ pc'[p] # "lk_lock")
            => ret' = Outcome(TRUE, <<>>)
       /\ (op[p] = "Fetch" /\ Writes(p))
            => /\ calls[p] = 1 /\ ~Val(res[p]).err
               /\ cache'[addr[p]] = Some(Val(res[p]).ips)
  /\ \A h \in Hosts :
       cache'[h] # cache[h]
         => \E p \in Procs :
              Writes(p) /\ addr[p] = h /\ cache'[h] = Some(Val(res[p]).ips)
\* C19: a Fetch that misses starts a resolution call of its own whether or not
\* other lookups of the same hostname are in flight, and leaves those alone;
\* each such Fetch whose resolution succeeds writes its own list over whatever
\* is there, so the entry is that of the write that took the lock last, which
\* need not be the resolution that returned last.
C19_MissesNotCoalesced == [][C19_Step]_vars
C19_Witness ==
  \E p, q \in Callers :
    /\ p # q /\ op[p] = "Fetch" /\ op[q] = "Fetch" /\ addr[p] = addr[q]
    /\ pc[p] = "lk_unlock" /\ pc[q] = "lk_lock"
    /\ calls[p] = 1 /\ calls[q] = 1
    /\ res[p] # res[q] /\ lastOk[addr[p]] = Some(Val(res[p]).ips)

\* ---- C20: an entry with an empty list is a hit ----
C20_Step ==
  \A p \in Procs :
    /\ (Writes(p) /\ Val(res[p]).ips = <<>>)
         => cache'[addr[p]] = Some(<<>>)
    /\ (p \in Callers /\ FetchReads(p) /\ cache[addr[p]] = Some(<<>>))
         => /\ pc'[p] = "idle" /\ ret' = Outcome(FALSE, <<>>)
            /\ calls[p] = 0 /\ cache' = cache
    /\ \A h \in Hosts :
         (cache[h] = Some(<<>>) /\ cache'[h] # cache[h])
           => \E q \in Procs : Writes(q) /\ addr[q] = h /\ ~Val(res[q]).err
\* C20: the write of a successful resolution with an empty list makes the
\* hostname a key; a Fetch that reads such an entry returns the empty list
\* and no error without having called the resolver; and the entry stays as it
\* is until the write of another successful resolution replaces it.
C20_EmptyListIsAHit == [][C20_Step]_vars
C20_Witness ==
  \E p \in Callers :
    /\ pc[p] = "f_read" /\ p \in readers /\ cache[addr[p]] = Some(<<>>)
    /\ lastOk[addr[p]] = Some(<<>>) /\ calls[p] = 0
====
